---- MODULE Spec2Model ----
(***************************************************************************)
(* Batch translation orchestrator of translate-tales-buddy.                *)
(*                                                                         *)
(* TranslationProcess is a React function component.  Every render binds   *)
(* the state values (status, currentPostIndex, retryCount, aborted, ...)   *)
(* as constants of that render, and processNextPost is a closure of the    *)
(* render in which the chain was started: its recursive calls and its      *)
(* setTimeout callback name the processNextPost of the same render, so     *)
(* the values it READS are those captured at the start, while its          *)
(* setState calls WRITE the live state of the component instance.  The     *)
(* model keeps both: comp[g] is the live state of instance g, and          *)
(* chain[g].cap the values captured by the closure that runs the chain.    *)
(***************************************************************************)
EXTENDS Integers, Sequences, FiniteSets, TLC

\* ---- program constants -------------------------------------------------
MAX_RETRIES == 3
RETRY_DELAY == 3000   \* ms, the setTimeout of the retry branch

\* ---- bounds of the model -------------------------------------------------
MaxPosts  == 2   \* posts that can be selected
MaxChunks == 2   \* body chunks of one post
MaxMounts == 2   \* times TranslationProcess is mounted
MaxActs   == 5   \* activations of processNextPost, all chains together

Gens  == 1..MaxMounts
Posts == 0..(MaxPosts - 1)

RECURSIVE Fact(_)
Fact(n) == IF n <= 1 THEN 1 ELSE n * Fact(n - 1)

\* progress is a real number of percent; the model stores progress * PScale,
\* which is an integer for every value the component can compute
PScale == Fact(MaxPosts) * Fact(MaxChunks)

VARIABLES
  isTranslating,  \* Index.tsx: AppContent state
  nSelected,      \* selectedPosts.length of the context (posts 0..nSelected-1)
  chunksOf,       \* number of chunks splitContentIntoChunks gives for a post
  selectedLanguage, \* Index.tsx: AppContent state, "" for no language
  credentials,    \* context: TRUE when credentials are stored (not null)
  comp,           \* comp[g]: live React state of the g-th mounted instance
  chain,          \* chain[g]: the processNextPost chain started by instance g
  txt,            \* translationService.ts: a text and what the functions return
  tc,             \* translationService.ts: one call of translateContent
  pub,            \* wordpressService.ts: one call of publishTranslatedPost
  conn            \* WordPressContext.tsx and ConnectionForm.tsx: the connection

\* the state of the service functions, untouched by the component
service == <<txt, tc, pub, conn>>

vars == <<isTranslating, nSelected, chunksOf, selectedLanguage, credentials,
          comp, chain, txt, tc, pub, conn>>

\* ---- translationService.ts: the text functions ---------------------------
\* A text is a sequence of tokens; a token is a literal piece of the string
\* that the regular expressions of the service treat as a whole.  Chars is
\* String.length.  VideoBare is an opening tag without attributes, which
\* <video[^>]+> does not match: [^>]+ needs a character before the '>'.
Img         == "<img s>"
VideoOpen   == "<video s>"
VideoBare   == "<video>"
VideoClose  == "</video>"
IframeOpen  == "<iframe s>"
IframeClose == "</iframe>"
NL          == "\n"
Alphabet ==
  {"a", NL, Img, VideoOpen, VideoBare, VideoClose, IframeOpen, IframeClose}

MaxLen   == 4   \* tokens of an input text
MaxLimit == 3   \* largest maxLength passed to splitContentIntoChunks

RECURSIVE Chars(_)
Chars(s) == IF s = <<>> THEN 0 ELSE Len(Head(s)) + Chars(Tail(s))

\* the template literal `{{HTML_ELEMENT_${elements.length}}}`
Placeholder(k) == "{{HTML_ELEMENT_" \o ToString(k) \o "}}"

\* index of the first tok in s at or after i, 0 when there is none
FirstAt(s, i, tok) ==
  IF \E j \in i..Len(s) : s[j] = tok
    THEN CHOOSE j \in i..Len(s) :
           s[j] = tok /\ \A k \in i..(j - 1) : s[k] # tok
    ELSE 0

NoElements == [text |-> <<>>, elements |-> <<>>, placeholders |-> <<>>]

\* content.replace(regex, callback) with the g flag, from token i on.  The
\* regex is open[^>]+> for close = "" (IMAGE_REGEX, the Img token) and
\* open[^>]+>.*?close otherwise: the lazy .*? with the s flag ends at the
\* first close after the opening tag.  acc.text is the result so far.
RECURSIVE ReplaceRegex(_, _, _, _, _)
ReplaceRegex(s, i, open, close, acc) ==
  IF i > Len(s) THEN acc
  ELSE LET j == IF s[i] # open THEN 0
                ELSE IF close = "" THEN i
                ELSE FirstAt(s, i + 1, close)
       IN IF j = 0
            THEN ReplaceRegex(s, i + 1, open, close,
                              [acc EXCEPT !.text = Append(@, s[i])])
            ELSE LET placeholder == Placeholder(Len(acc.elements))
                 IN ReplaceRegex(s, j + 1, open, close,
                      [text         |-> Append(acc.text, placeholder),
                       elements     |-> Append(acc.elements, SubSeq(s, i, j)),
                       placeholders |-> Append(acc.placeholders, placeholder)])

\* allRegexes.forEach: IMAGE_REGEX, then VIDEO_REGEX, then IFRAME_REGEX, each
\* on the result of the one before
ExtractHtmlElements(content) ==
  LET a1 == ReplaceRegex(content, 1, Img, "", NoElements)
      a2 == ReplaceRegex(a1.text, 1, VideoOpen, VideoClose,
                         [a1 EXCEPT !.text = <<>>])
      a3 == ReplaceRegex(a2.text, 1, IframeOpen, IframeClose,
                         [a2 EXCEPT !.text = <<>>])
  IN a3

\* String.replace with a string pattern: the first occurrence only
ReplaceFirst(s, tok, rep) ==
  LET j == FirstAt(s, 1, tok)
  IN IF j = 0 THEN s
     ELSE SubSeq(s, 1, j - 1) \o rep \o SubSeq(s, j + 1, Len(s))

RECURSIVE RestoreFrom(_, _, _, _)
RestoreFrom(restoredText, elements, placeholders, index) ==
  IF index > Len(placeholders) THEN restoredText
  ELSE RestoreFrom(ReplaceFirst(restoredText, placeholders[index],
                                elements[index]),
                   elements, placeholders, index + 1)

\* placeholders.forEach, in index order
RestoreHtmlElements(translatedText, elements, placeholders) ==
  RestoreFrom(translatedText, elements, placeholders, 1)

\* first index at or after i that is not a line break, Len(s) + 1 if none
RECURSIVE RunEnd(_, _)
RunEnd(s, i) == IF i <= Len(s) /\ s[i] = NL THEN RunEnd(s, i + 1) ELSE i

\* text.split(/(?:\r?\n){2,}/): a run of two or more line breaks separates
\* paragraphs; a separator at either end gives an empty paragraph there
RECURSIVE SplitFrom(_, _, _, _)
SplitFrom(s, i, paragraph, paragraphs) ==
  IF i > Len(s) THEN Append(paragraphs, paragraph)
  ELSE IF s[i] = NL /\ i < Len(s) /\ s[i + 1] = NL
    THEN SplitFrom(s, RunEnd(s, i), <<>>, Append(paragraphs, paragraph))
    ELSE SplitFrom(s, i + 1, Append(paragraph, s[i]), paragraphs)

SplitParagraphs(text) == SplitFrom(text, 1, <<>>, <<>>)

\* paragraphs.forEach and the push after it
RECURSIVE ChunksFrom(_, _, _, _, _)
ChunksFrom(paragraphs, k, currentChunk, chunks, maxLength) ==
  LET pushed == IF currentChunk # <<>> THEN Append(chunks, currentChunk)
                ELSE chunks
  IN IF k > Len(paragraphs) THEN pushed
     ELSE IF Chars(currentChunk) + Chars(paragraphs[k]) < maxLength
       THEN ChunksFrom(paragraphs, k + 1,
                       currentChunk \o paragraphs[k] \o <<NL, NL>>,
                       chunks, maxLength)
       ELSE ChunksFrom(paragraphs, k + 1, paragraphs[k] \o <<NL, NL>>,
                       pushed, maxLength)

SplitContentIntoChunks(content, maxLength) ==
  IF Chars(content) <= maxLength THEN <<content>>
  ELSE LET e      == ExtractHtmlElements(content)
           chunks == ChunksFrom(SplitParagraphs(e.text), 1, <<>>, <<>>,
                                maxLength)
       IN [k \in 1..Len(chunks) |->
             RestoreHtmlElements(chunks[k], e.elements, e.placeholders)]

\* no text function has been called
NoText == [pc |-> "none", content |-> <<>>, maxLength |-> 0,
           extracted |-> NoElements, restored |-> <<>>, chunks |-> <<>>]

\* ---- translationService.ts: translateContent -----------------------------
API_KEYS == <<"key1", "key2", "key3">>
KEY_DELAY == 500          \* ms waited before the next key is tried
REQUEST_TIMEOUT == 30000  \* ms, AbortSignal.timeout of the fetch

\* the timeout of a request; isTitle does not enter
Timeout(isTitle) == REQUEST_TIMEOUT

\* what one request can end in: a translation, a response that is not ok,
\* the 30 s AbortSignal, a body that is not JSON, JSON without
\* candidates[0].content.parts, parts without a first part, a first part
\* without text (a TypeError in restoreHtmlElements or ensureProperEnding)
FailKinds == {"http", "timeout", "json", "shape", "nopart", "notext"}

MaxOut == 2   \* tokens of a text the provider returns

Whitespace == {" ", NL}
Punctuation == {".", "!", "?"}

\* what parts[0].text is made of
OutAlphabet == {"a", " ", ".", "!", "?", Placeholder(0), Placeholder(1)}

\* String.trim
RECURSIVE Trim(_)
Trim(s) ==
  IF s = <<>> THEN s
  ELSE IF Head(s) \in Whitespace THEN Trim(Tail(s))
  ELSE IF s[Len(s)] \in Whitespace THEN Trim(SubSeq(s, 1, Len(s) - 1))
  ELSE s

\* ensureProperEnding without the appended period
EnsureProperEndingNoPeriod(translation) == Trim(translation)

\* ensureProperEnding; /[.!?]$/ tests the last character
EnsureProperEnding(translation) ==
  LET trimmed == Trim(translation)
  IN IF Len(trimmed) > 0 /\ trimmed[Len(trimmed)] \notin Punctuation
       THEN Append(trimmed, ".")
       ELSE trimmed

\* translateContent has not been called; calls, outs and raw are history
NoCall == [pc |-> "none", i |-> 0, lastError |-> <<>>, calls |-> <<>>,
           outs |-> <<>>, thrown |-> <<>>, content |-> <<>>, raw |-> <<>>,
           restored |-> <<>>, result |-> <<>>, isTitle |-> FALSE,
           timeout |-> 0, waits |-> <<>>]

\* ---- wordpressService.ts: publishTranslatedPost --------------------------
\* String.toLowerCase on the language codes of the model
ToLowerCase(code) ==
  CASE code = "ZH" -> "zh"
    [] code = "Fr" -> "fr"
    [] OTHER       -> code

LanguageCodes == {"zh", "ZH", "Fr"}

\* what GET /wp-json/wp/v2/posts/{id} can return for the original post
OriginalPosts ==
  [slug : {"hello", "my-post"}, categories : {<<>>, <<3>>},
   tags : {<<>>, <<5>>}]

\* postData with the language code as it was passed
PostDataRawCode(originalPost, language_code) ==
  [title |-> "translatedTitle", content |-> "translatedContent",
   status |-> "publish",
   slug |-> originalPost.slug \o "-" \o language_code,
   categories |-> originalPost.categories, tags |-> originalPost.tags,
   featured_media |-> 0]

\* postData as built after the original post was fetched; featured_media 0
\* stands for the absent field
PostData(originalPost, language_code) ==
  [title |-> "translatedTitle", content |-> "translatedContent",
   status |-> "publish",
   slug |-> originalPost.slug \o "-" \o ToLowerCase(language_code),
   categories |-> originalPost.categories, tags |-> originalPost.tags,
   featured_media |-> 0]

\* publishTranslatedPost has not been called; fetched and posted are history
NoPublish ==
  [pc |-> "none", language_code |-> "", featuredImageUrl |-> FALSE,
   fetched |-> FALSE, originalPost |-> <<>>, postData |-> <<>>,
   posted |-> <<>>]

\* ---- the connection: WordPressContext.tsx and ConnectionForm.tsx ---------
MaxSlashes == 2   \* slashes a typed site URL ends with
MaxFetched == 3   \* posts in an answer to fetchPosts

\* credentials = null of the context
Null == [null |-> TRUE]

\* a site URL as typed: its scheme ("" for none), its host and the number of
\* slashes it ends with
SiteUrls ==
  {[scheme |-> sc, host |-> "example.com", slashes |-> n] :
     sc \in {"", "http://", "https://"}, n \in 0..MaxSlashes}

\* wordpressService.validateSiteUrl: one trailing slash removed, 'https://'
\* put in front of a URL that starts with neither scheme
ValidateSiteUrl(url) ==
  [scheme  |-> IF url.scheme = "" THEN "https://" ELSE url.scheme,
   host    |-> url.host,
   slashes |-> IF url.slashes > 0 THEN url.slashes - 1 ELSE 0]

\* the arrays of posts the site answers fetchPosts with: post ids, each at
\* most once
PostLists ==
  {ids \in UNION {[1..n -> 1..MaxFetched] : n \in 0..MaxFetched} :
     \A j, k \in 1..Len(ids) : ids[j] = ids[k] => j = k}

\* the posts of an answer as the context holds them: 'selected' is absent
\* from the answer, hence falsy
Fetched(ids) == [k \in 1..Len(ids) |-> [id |-> ids[k], selected |-> FALSE]]

\* useState initial values of WordPressProvider (credentials, posts) and of
\* ConnectionForm (loading); pc is the position of handleConnect, trying its
\* local 'credentials', tested and fetched what its two awaits gave
NoConnection ==
  [credentials |-> Null, posts |-> <<>>, loading |-> FALSE, pc |-> "form",
   trying |-> Null, tested |-> "none", fetched |-> "none"]

\* isConnected of the context: !!credentials
IsConnected == conn.credentials # Null

\* useState initial values of TranslationProcess
InitComp ==
  [mounted |-> FALSE, status |-> "idle", currentPostIndex |-> 0,
   progress |-> 0, results |-> [success |-> 0, failed |-> 0],
   retryCount |-> 0, aborted |-> FALSE]

NoCap == [currentPostIndex |-> 0, totalPosts |-> 0, retryCount |-> 0,
          aborted |-> FALSE]

\* the "[TRANSLATION ERROR: ...]" text in translatedContent
ErrorMarker == -1

\* a chain that has not been started; the fields after cap are history;
\* body is translatedContent of translatePost: the indexes of the chunks
\* whose translations it holds, ErrorMarker for a marker
InitChain ==
  [pc |-> "none", cap |-> NoCap, post |-> 0, i |-> 0,
   acts |-> 0, att |-> 0, fails |-> 0, timers |-> 0,
   pubs |-> [p \in Posts |-> 0], anyFail |-> FALSE, abortPhase |-> "none",
   marker |-> FALSE, rejected |-> "none", delays |-> <<>>, body |-> <<>>]

InFlight == {"title", "chunk", "publish"}

RECURSIVE SumActs(_)
SumActs(g) == IF g = 0 THEN 0 ELSE chain[g].acts + SumActs(g - 1)

TotalActs == SumActs(MaxMounts)

\* a setState call: it changes the state of a mounted instance and is a
\* no-op once the instance is unmounted
SetState(cm, field, value) ==
  IF cm.mounted THEN [cm EXCEPT ![field] = value] ELSE cm

\* an overallProgress that counts the current post among the completed ones
OverallProgressCountsCurrent(idx, total, tpNum, n) ==
  (100 * (idx + 1) * n + tpNum) * (PScale \div (n * total))

\* overallProgress of the onProgress callback, for translationProgress =
\* tpNum / n percent
OverallProgress(idx, total, tpNum, n) ==
  (100 * idx * n + tpNum) * (PScale \div (n * total))

\* the values of the render whose closures start the chain
Capture(cm, total) ==
  [currentPostIndex |-> cm.currentPostIndex, totalPosts |-> total,
   retryCount |-> cm.retryCount, aborted |-> cm.aborted]

\* processNextPost up to its first suspension (the title call of
\* translatePost); retry tells the activation made by the retry timer from
\* the one made for a new post
ProcessNextPost(cm, ch, retry) ==
  LET c0 == [ch EXCEPT !.acts = @ + 1, !.abortPhase = "none"] IN
  IF ch.cap.aborted
    THEN [comp |-> cm, chain |-> [c0 EXCEPT !.pc = "returned"]]
  ELSE IF ch.cap.currentPostIndex >= ch.cap.totalPosts
    THEN [comp |-> SetState(cm, "status", "completed"),
          chain |-> [c0 EXCEPT !.pc = "returned"]]
  ELSE
    LET cm1 == SetState(cm, "retryCount", 0)
        cm2 == SetState(cm1, "status", "translating")
        c1  == [c0 EXCEPT !.pc = "title", !.post = ch.cap.currentPostIndex,
                          !.i = 0, !.marker = FALSE, !.body = <<>>]
        c2  == IF retry
                 THEN [c1 EXCEPT !.att = @ + 1]
                 ELSE [c1 EXCEPT !.att = 1, !.fails = 0, !.timers = 0,
                                 !.delays = <<>>]
    IN [comp |-> cm2, chain |-> c2]

\* the catch block of processNextPost
Catch(cm, ch) ==
  LET c0 == [ch EXCEPT !.fails = @ + 1, !.anyFail = TRUE] IN
  IF ch.cap.retryCount < MAX_RETRIES
    THEN [comp  |-> SetState(cm, "retryCount", cm.retryCount + 1),
          chain |-> [c0 EXCEPT !.pc = "timer", !.timers = @ + 1,
                               !.delays = Append(@, RETRY_DELAY)]]
    ELSE
      LET cm1 == SetState(cm, "results",
                   [cm.results EXCEPT !.failed = @ + 1])
          cm2 == SetState(cm1, "currentPostIndex", cm1.currentPostIndex + 1)
          cm3 == SetState(cm2, "retryCount", 0)
      IN ProcessNextPost(cm3, c0, FALSE)

\* the preconditions of TranslationProcess.startTranslation, without the
\* check of the credentials
StartAllowedNoCredentials(n, lang, creds) ==
  n # 0 /\ lang # ""

\* the preconditions of TranslationProcess.startTranslation
StartAllowed(n, lang, creds) ==
  n # 0 /\ lang # "" /\ creds

\* a startTranslation that begins at the second post
StartTranslationFromOne(cm, ch, n, lang, creds) ==
  IF ~StartAllowed(n, lang, creds)
    THEN [comp  |-> cm,
          chain |-> [ch EXCEPT !.rejected =
                       IF n = 0 THEN "posts"
                       ELSE IF lang = "" THEN "language" ELSE "credentials"]]
    ELSE
      LET cap == Capture(cm, n)
          cm1 == SetState(cm, "status", "translating")
          cm2 == SetState(cm1, "currentPostIndex", 1)
      IN ProcessNextPost(cm2, [ch EXCEPT !.cap = cap, !.rejected = "none"],
                         FALSE)

\* TranslationProcess.startTranslation, run by the closures of the render
\* whose state is cm, up to the first suspension of processNextPost
StartTranslation(cm, ch, n, lang, creds) ==
  IF ~StartAllowed(n, lang, creds)
    THEN [comp  |-> cm,
          chain |-> [ch EXCEPT !.rejected =
                       IF n = 0 THEN "posts"
                       ELSE IF lang = "" THEN "language" ELSE "credentials"]]
    ELSE
      LET cap == Capture(cm, n)
          cm1 == SetState(cm, "status", "translating")
          cm2 == SetState(cm1, "currentPostIndex", 0)
          cm3 == SetState(cm2, "progress", 0)
          cm4 == SetState(cm3, "results", [success |-> 0, failed |-> 0])
          cm5 == SetState(cm4, "retryCount", 0)
          cm6 == SetState(cm5, "aborted", FALSE)
      IN ProcessNextPost(cm6, [ch EXCEPT !.cap = cap, !.rejected = "none"],
                         FALSE)

\* the mount of TranslationProcess and its mount effect
MountEffect(n, lang, creds) ==
  LET cm0 == [InitComp EXCEPT !.mounted = TRUE] IN
  IF cm0.status = "idle" /\ n > 0
    THEN StartTranslation(cm0, InitChain, n, lang, creds)
    ELSE [comp |-> cm0, chain |-> InitChain]

\* the state after a successful connection: credentials stored, posts
\* fetched and none selected, language 'zh'
Init ==
  /\ isTranslating = FALSE
  /\ nSelected = 0
  /\ selectedLanguage = "zh"
  /\ credentials = TRUE
  /\ chunksOf \in [Posts -> 1..MaxChunks]
  /\ comp = [g \in Gens |-> InitComp]
  /\ chain = [g \in Gens |-> InitChain]
  /\ txt = NoText
  /\ tc = NoCall
  /\ pub = NoPublish
  /\ conn = NoConnection

\* PostList: togglePostSelection / selectAllPosts / unselectAllPosts
SelectPosts(n) ==
  /\ ~isTranslating
  /\ n # nSelected
  /\ nSelected' = n
  /\ UNCHANGED <<isTranslating, chunksOf, selectedLanguage, credentials, comp, chain, service>>

\* Index.startTranslation, the mount of TranslationProcess it causes, the
\* mount effect and TranslationProcess.startTranslation
IndexStartTranslation(g) ==
  /\ ~isTranslating
  /\ credentials
  /\ nSelected > 0
  /\ selectedLanguage # ""
  /\ chain[g].pc = "none"
  /\ ~comp[g].mounted
  /\ \A h \in Gens : h < g => chain[h].pc # "none"
  /\ TotalActs < MaxActs
  /\ isTranslating' = TRUE
  /\ LET r == MountEffect(nSelected, selectedLanguage, credentials)
     IN /\ comp' = [comp EXCEPT ![g] = r.comp]
        /\ chain' = [chain EXCEPT ![g] = r.chain]
  /\ UNCHANGED <<nSelected, chunksOf, selectedLanguage, credentials, service>>

\* abortTranslation, behind a button shown while translating or publishing
AbortTranslation(g) ==
  /\ comp[g].mounted
  /\ comp[g].status \in {"translating", "publishing"}
  /\ comp' = [comp EXCEPT ![g] =
                SetState(SetState(@, "aborted", TRUE), "status", "error")]
  /\ chain' = [chain EXCEPT ![g].abortPhase = chain[g].pc]
  /\ UNCHANGED <<isTranslating, nSelected, chunksOf, selectedLanguage, credentials, service>>

\* "Start New Translation": Index.handleTranslationComplete unmounts the
\* component, whose state is dropped; a chain still running is not stopped
HandleTranslationComplete(g) ==
  /\ comp[g].mounted
  /\ comp[g].status \in {"completed", "error"}
  /\ isTranslating' = FALSE
  /\ comp' = [comp EXCEPT ![g] = InitComp]
  /\ UNCHANGED <<nSelected, chunksOf, selectedLanguage, credentials, chain, service>>

\* translatePost: the title call returns; translateContent has thrown when
\* every API key failed
TitleOk(g) ==
  /\ chain[g].pc = "title"
  /\ comp' = [comp EXCEPT ![g] =
       SetState(@, "progress",
         OverallProgress(chain[g].cap.currentPostIndex,
                         chain[g].cap.totalPosts, 25, 1))]
  /\ chain' = [chain EXCEPT ![g] = [@ EXCEPT !.pc = "chunk", !.i = 0]]
  /\ UNCHANGED <<isTranslating, nSelected, chunksOf, selectedLanguage, credentials, service>>

TitleFails(g) ==
  /\ chain[g].pc = "title"
  /\ TotalActs < MaxActs
  /\ LET r == Catch(comp[g], chain[g])
     IN /\ comp' = [comp EXCEPT ![g] = r.comp]
        /\ chain' = [chain EXCEPT ![g] = r.chain]
  /\ UNCHANGED <<isTranslating, nSelected, chunksOf, selectedLanguage, credentials, service>>

\* variant of ChunkReturns that puts the new chunk in front of the content
ChunkReturnsPrepend(g, ok) ==
  /\ chain[g].pc = "chunk"
  /\ LET n   == chunksOf[chain[g].post]
         i   == chain[g].i
         cm1 == SetState(comp[g], "progress",
                  OverallProgress(chain[g].cap.currentPostIndex,
                                  chain[g].cap.totalPosts,
                                  25 * n + 75 * (i + 1), n))
         c1  == [chain[g] EXCEPT !.marker = @ \/ ~ok,
                                 !.anyFail = @ \/ ~ok,
                                 !.body = <<IF ok THEN i ELSE ErrorMarker>>
                                            \o @]
     IN IF i + 1 < n
          THEN /\ comp' = [comp EXCEPT ![g] = cm1]
               /\ chain' = [chain EXCEPT ![g] = [c1 EXCEPT !.i = i + 1]]
          ELSE /\ comp' = [comp EXCEPT ![g] =
                             SetState(cm1, "status", "publishing")]
               /\ chain' = [chain EXCEPT ![g] = [c1 EXCEPT !.pc = "publish"]]
  /\ UNCHANGED <<isTranslating, nSelected, chunksOf, selectedLanguage, credentials, service>>

\* variant of ChunkReturns in which a failed chunk fails the attempt: the
\* error leaves translatePost and reaches the catch block of processNextPost
ChunkReturnsStrict(g, ok) ==
  /\ chain[g].pc = "chunk"
  /\ IF ok
       THEN LET n   == chunksOf[chain[g].post]
                i   == chain[g].i
                cm1 == SetState(comp[g], "progress",
                         OverallProgress(chain[g].cap.currentPostIndex,
                                         chain[g].cap.totalPosts,
                                         25 * n + 75 * (i + 1), n))
            IN IF i + 1 < n
                 THEN /\ comp' = [comp EXCEPT ![g] = cm1]
                      /\ chain' = [chain EXCEPT ![g].i = i + 1,
                                                ![g].body = Append(@, i)]
                 ELSE /\ comp' = [comp EXCEPT ![g] =
                                    SetState(cm1, "status", "publishing")]
                      /\ chain' = [chain EXCEPT ![g].pc = "publish",
                                                ![g].body = Append(@, i)]
       ELSE /\ TotalActs < MaxActs
            /\ LET r == Catch(comp[g], chain[g])
               IN /\ comp' = [comp EXCEPT ![g] = r.comp]
                  /\ chain' = [chain EXCEPT ![g] = r.chain]
  /\ UNCHANGED <<isTranslating, nSelected, chunksOf, selectedLanguage, credentials, service>>

\* translatePost: a chunk call returns; a failed chunk is replaced by a
\* "[TRANSLATION ERROR: ...]" marker in the translated content and the loop
\* goes on, so both outcomes report progress
ChunkReturns(g, ok) ==
  /\ chain[g].pc = "chunk"
  /\ LET n   == chunksOf[chain[g].post]
         i   == chain[g].i
         cm1 == SetState(comp[g], "progress",
                  OverallProgress(chain[g].cap.currentPostIndex,
                                  chain[g].cap.totalPosts,
                                  25 * n + 75 * (i + 1), n))
         c1  == [chain[g] EXCEPT !.marker = @ \/ ~ok,
                                 !.anyFail = @ \/ ~ok,
                                 !.body = Append(@, IF ok THEN i
                                                    ELSE ErrorMarker)]
     IN IF i + 1 < n
          THEN /\ comp' = [comp EXCEPT ![g] = cm1]
               /\ chain' = [chain EXCEPT ![g] = [c1 EXCEPT !.i = i + 1]]
          ELSE /\ comp' = [comp EXCEPT ![g] =
                             SetState(cm1, "status", "publishing")]
               /\ chain' = [chain EXCEPT ![g] = [c1 EXCEPT !.pc = "publish"]]
  /\ UNCHANGED <<isTranslating, nSelected, chunksOf, selectedLanguage, credentials, service>>

\* publishTranslatedPost returns the new post's id
PublishOk(g) ==
  /\ chain[g].pc = "publish"
  /\ TotalActs < MaxActs
  /\ LET cm1 == SetState(comp[g], "results",
                  [comp[g].results EXCEPT !.success = @ + 1])
         cm2 == SetState(cm1, "currentPostIndex", cm1.currentPostIndex + 1)
         c1  == [chain[g] EXCEPT !.pubs[chain[g].post] = @ + 1]
         r   == ProcessNextPost(cm2, c1, FALSE)
     IN /\ comp' = [comp EXCEPT ![g] = r.comp]
        /\ chain' = [chain EXCEPT ![g] = r.chain]
  /\ UNCHANGED <<isTranslating, nSelected, chunksOf, selectedLanguage, credentials, service>>

PublishFails(g) ==
  /\ chain[g].pc = "publish"
  /\ TotalActs < MaxActs
  /\ LET r == Catch(comp[g], chain[g])
     IN /\ comp' = [comp EXCEPT ![g] = r.comp]
        /\ chain' = [chain EXCEPT ![g] = r.chain]
  /\ UNCHANGED <<isTranslating, nSelected, chunksOf, selectedLanguage, credentials, service>>

\* variant of RetryTimer that takes the attempt up where it failed
RetryTimerResume(g) ==
  /\ chain[g].pc = "timer"
  /\ TotalActs < MaxActs
  /\ chain' = [chain EXCEPT ![g] =
                 [@ EXCEPT !.pc = IF chain[g].body = <<>> THEN "title"
                                  ELSE "publish",
                           !.acts = @ + 1, !.att = @ + 1]]
  /\ UNCHANGED <<isTranslating, nSelected, chunksOf, selectedLanguage, credentials, comp, service>>

\* the setTimeout(..., 3000) of the retry branch fires
RetryTimer(g) ==
  /\ chain[g].pc = "timer"
  /\ TotalActs < MaxActs
  /\ LET r == ProcessNextPost(comp[g], chain[g], TRUE)
     IN /\ comp' = [comp EXCEPT ![g] = r.comp]
        /\ chain' = [chain EXCEPT ![g] = r.chain]
  /\ UNCHANGED <<isTranslating, nSelected, chunksOf, selectedLanguage, credentials, service>>

\* TranslationProcess is rendered (mounted) whatever the selection, the
\* language and the credentials are; its mount effect runs
RenderTranslationProcess(g) ==
  /\ ~isTranslating
  /\ chain[g].pc = "none"
  /\ ~comp[g].mounted
  /\ TotalActs < MaxActs
  /\ isTranslating' = TRUE
  /\ LET r == MountEffect(nSelected, selectedLanguage, credentials)
     IN /\ comp' = [comp EXCEPT ![g] = r.comp]
        /\ chain' = [chain EXCEPT ![g] = r.chain]
  /\ UNCHANGED <<nSelected, chunksOf, selectedLanguage, credentials, service>>

\* the "Start Translation" button, shown while the status is 'idle' and
\* disabled without a selected post or a language
StartButton(g) ==
  /\ comp[g].mounted
  /\ comp[g].status = "idle"
  /\ nSelected # 0 /\ selectedLanguage # ""
  /\ TotalActs < MaxActs
  /\ LET r == StartTranslation(comp[g], chain[g], nSelected,
                               selectedLanguage, credentials)
     IN /\ comp' = [comp EXCEPT ![g] = r.comp]
        /\ chain' = [chain EXCEPT ![g] = r.chain]
  /\ UNCHANGED <<isTranslating, nSelected, chunksOf, selectedLanguage, credentials, service>>

\* One mounted instance of TranslationProcess, from its mount to after its
\* unmount.  Instances share no state (a chain writes the state of its own
\* instance only), so what holds of the first holds of each.
First == {1}

Next ==
  \/ \E n \in 0..MaxPosts : SelectPosts(n)
  \/ \E g \in First : IndexStartTranslation(g)
  \/ \E g \in First : AbortTranslation(g)
  \/ \E g \in First : HandleTranslationComplete(g)
  \/ \E g \in First : TitleOk(g)
  \/ \E g \in First : TitleFails(g)
  \/ \E g \in First : \E ok \in BOOLEAN : ChunkReturns(g, ok)
  \/ \E g \in First : PublishOk(g)
  \/ \E g \in First : PublishFails(g)
  \/ \E g \in First : RetryTimer(g)

Spec == Init /\ [][Next]_vars

\* The same with "Start New Translation" followed by a new start: up to
\* MaxMounts instances, the chains of the unmounted ones still running.
NextRemount ==
  \/ \E n \in 0..MaxPosts : SelectPosts(n)
  \/ \E g \in Gens : IndexStartTranslation(g)
  \/ \E g \in Gens : AbortTranslation(g)
  \/ \E g \in Gens : HandleTranslationComplete(g)
  \/ \E g \in Gens : TitleOk(g)
  \/ \E g \in Gens : TitleFails(g)
  \/ \E g \in Gens : \E ok \in BOOLEAN : ChunkReturns(g, ok)
  \/ \E g \in Gens : PublishOk(g)
  \/ \E g \in Gens : PublishFails(g)
  \/ \E g \in Gens : RetryTimer(g)

SpecRemount == Init /\ [][NextRemount]_vars

\* startTranslation on every input: the selection, the language and the
\* credentials are drawn, then one instance is rendered and runs
InitStart ==
  /\ isTranslating = FALSE
  /\ nSelected \in 0..MaxPosts
  /\ selectedLanguage \in {"", "zh"}
  /\ credentials \in BOOLEAN
  /\ chunksOf \in [Posts -> 1..MaxChunks]
  /\ comp = [g \in Gens |-> InitComp]
  /\ chain = [g \in Gens |-> InitChain]
  /\ txt = NoText
  /\ tc = NoCall
  /\ pub = NoPublish
  /\ conn = NoConnection

NextStart ==
  \/ \E g \in First : RenderTranslationProcess(g)
  \/ \E g \in First : StartButton(g)
  \/ \E g \in First : AbortTranslation(g)
  \/ \E g \in First : HandleTranslationComplete(g)
  \/ \E g \in First : TitleOk(g)
  \/ \E g \in First : TitleFails(g)
  \/ \E g \in First : \E ok \in BOOLEAN : ChunkReturns(g, ok)
  \/ \E g \in First : PublishOk(g)
  \/ \E g \in First : PublishFails(g)
  \/ \E g \in First : RetryTimer(g)

SpecStart == InitStart /\ [][NextStart]_vars

\* ---- the service functions on their own ----------------------------------
component == <<isTranslating, nSelected, chunksOf, selectedLanguage,
               credentials, comp, chain>>

\* the texts of at most MaxLen tokens
Texts == UNION {[1..n -> Alphabet] : n \in 0..MaxLen}

\* a text and a maxLength, before any function is applied
InitText ==
  /\ isTranslating = FALSE
  /\ nSelected = 0
  /\ selectedLanguage = "zh"
  /\ credentials = TRUE
  /\ chunksOf = [p \in Posts |-> 1]
  /\ comp = [g \in Gens |-> InitComp]
  /\ chain = [g \in Gens |-> InitChain]
  /\ txt \in {[NoText EXCEPT !.pc = "input", !.content = c, !.maxLength = m] :
                c \in Texts, m \in 1..MaxLimit}
  /\ tc = NoCall
  /\ pub = NoPublish
  /\ conn = NoConnection

\* extractHtmlElements(content)
ExtractCall ==
  /\ txt.pc = "input"
  /\ txt' = [txt EXCEPT !.pc = "extracted",
                        !.extracted = ExtractHtmlElements(txt.content)]
  /\ UNCHANGED <<component, tc, pub, conn>>

\* restoreHtmlElements on what extractHtmlElements returned
RestoreCall ==
  /\ txt.pc = "extracted"
  /\ txt' = [txt EXCEPT !.pc = "restored",
                        !.restored = RestoreHtmlElements(txt.extracted.text,
                                       txt.extracted.elements,
                                       txt.extracted.placeholders)]
  /\ UNCHANGED <<component, tc, pub, conn>>

\* splitContentIntoChunks(content, maxLength)
SplitCall ==
  /\ txt.pc = "input"
  /\ txt' = [txt EXCEPT !.pc = "split",
                        !.chunks = SplitContentIntoChunks(txt.content,
                                                          txt.maxLength)]
  /\ UNCHANGED <<component, tc, pub, conn>>

NextText == ExtractCall \/ RestoreCall \/ SplitCall

SpecText == InitText /\ [][NextText]_vars

\* the contents translateContent is called with, and the texts of at most
\* MaxOut tokens the provider can return
KeyContents == {<<"a">>, <<Img, "a">>}
OutTexts == UNION {[1..n -> OutAlphabet] : n \in 0..MaxOut}

\* one call of translateContent: the loop over API_KEYS
\* entry: i = 0 in the source, the first key here, and its request is sent
TranslateContent(content, isTitle) ==
  /\ tc.pc = "none"
  /\ tc' = [tc EXCEPT !.pc = "fetch", !.i = 1, !.calls = <<1>>,
                      !.content = content, !.isTitle = isTitle,
                      !.timeout = Timeout(isTitle)]
  /\ UNCHANGED <<component, txt, pub, conn>>

\* the response is ok and parts[0].text is the string translatedText:
\* restore the elements of the content, fix the ending, return
FetchOk(translatedText) ==
  /\ tc.pc = "fetch"
  /\ LET e == ExtractHtmlElements(tc.content)
         finalTranslation ==
           RestoreHtmlElements(translatedText, e.elements, e.placeholders)
     IN tc' = [tc EXCEPT !.pc = "returned", !.outs = Append(@, "ok"),
                         !.raw = translatedText,
                         !.restored = finalTranslation,
                         !.result = EnsureProperEnding(finalTranslation)]
  /\ UNCHANGED <<component, txt, pub, conn>>

\* a catch block that keeps the first error it saw
FetchFailsFirstError(kind) ==
  /\ tc.pc = "fetch"
  /\ LET lastError == IF tc.lastError = <<>> THEN <<kind, tc.i>>
                      ELSE tc.lastError
     IN tc' = IF tc.i = Len(API_KEYS)
                THEN [tc EXCEPT !.pc = "thrown", !.outs = Append(@, kind),
                                !.lastError = lastError, !.thrown = lastError]
                ELSE [tc EXCEPT !.pc = "delay", !.outs = Append(@, kind),
                                !.lastError = lastError,
                                !.waits = Append(@, KEY_DELAY)]
  /\ UNCHANGED <<component, txt, pub, conn>>

\* a catch block that goes on to the next key at once
FetchFailsImmediate(kind) ==
  /\ tc.pc = "fetch"
  /\ LET lastError == <<kind, tc.i>>
     IN tc' = IF tc.i = Len(API_KEYS)
                THEN [tc EXCEPT !.pc = "thrown", !.outs = Append(@, kind),
                                !.lastError = lastError, !.thrown = lastError]
                ELSE [tc EXCEPT !.outs = Append(@, kind),
                                !.lastError = lastError, !.i = @ + 1,
                                !.calls = Append(@, tc.i + 1)]
  /\ UNCHANGED <<component, txt, pub, conn>>

\* anything thrown inside the try: the catch block sets lastError, throws it
\* after the last key and otherwise waits 500 ms
FetchFails(kind) ==
  /\ tc.pc = "fetch"
  /\ LET lastError == <<kind, tc.i>>
     IN tc' = IF tc.i = Len(API_KEYS)
                THEN [tc EXCEPT !.pc = "thrown", !.outs = Append(@, kind),
                                !.lastError = lastError, !.thrown = lastError]
                ELSE [tc EXCEPT !.pc = "delay", !.outs = Append(@, kind),
                                !.lastError = lastError,
                                !.waits = Append(@, KEY_DELAY)]
  /\ UNCHANGED <<component, txt, pub, conn>>

\* the 500 ms timer fires: i++ and the request with the next key is sent
DelayElapsed ==
  /\ tc.pc = "delay"
  /\ tc' = [tc EXCEPT !.pc = "fetch", !.i = @ + 1,
                      !.calls = Append(@, tc.i + 1),
                      !.timeout = Timeout(tc.isTitle)]
  /\ UNCHANGED <<component, txt, pub, conn>>

InitKeys ==
  /\ isTranslating = FALSE
  /\ nSelected = 0
  /\ selectedLanguage = "zh"
  /\ credentials = TRUE
  /\ chunksOf = [p \in Posts |-> 1]
  /\ comp = [g \in Gens |-> InitComp]
  /\ chain = [g \in Gens |-> InitChain]
  /\ txt = NoText
  /\ tc = NoCall
  /\ pub = NoPublish
  /\ conn = NoConnection

NextKeys ==
  \/ \E content \in KeyContents : \E isTitle \in BOOLEAN :
       TranslateContent(content, isTitle)
  \/ \E translatedText \in OutTexts : FetchOk(translatedText)
  \/ \E kind \in FailKinds : FetchFails(kind)
  \/ DelayElapsed

SpecKeys == InitKeys /\ [][NextKeys]_vars

\* one call of publishTranslatedPost
\* entry: the GET of the original post is sent
PublishTranslatedPost(language_code, featuredImageUrl) ==
  /\ pub.pc = "none"
  /\ pub' = [pub EXCEPT !.pc = "get", !.language_code = language_code,
                        !.featuredImageUrl = featuredImageUrl]
  /\ UNCHANGED <<component, txt, tc, conn>>

\* the GET is ok: build postData; without a featured image the POST is sent
\* at once, with one the media search comes first
GetOriginalOk(originalPost) ==
  /\ pub.pc = "get"
  /\ LET postData == PostData(originalPost, pub.language_code)
     IN pub' = IF pub.featuredImageUrl
                 THEN [pub EXCEPT !.pc = "media", !.fetched = TRUE,
                                  !.originalPost = originalPost,
                                  !.postData = postData]
                 ELSE [pub EXCEPT !.pc = "create", !.fetched = TRUE,
                                  !.originalPost = originalPost,
                                  !.postData = postData,
                                  !.posted = Append(@, postData)]
  /\ UNCHANGED <<component, txt, tc, conn>>

\* the GET is not ok, times out or its body is not JSON: throw
GetOriginalFails ==
  /\ pub.pc = "get"
  /\ pub' = [pub EXCEPT !.pc = "thrown"]
  /\ UNCHANGED <<component, txt, tc, conn>>

\* the media search returns: id 0 stands for no item, a response that is
\* not ok or an error, all of which leave postData as it is; then the POST
MediaReturns(id) ==
  /\ pub.pc = "media"
  /\ LET postData == [pub.postData EXCEPT !.featured_media = id]
     IN pub' = [pub EXCEPT !.pc = "create", !.postData = postData,
                           !.posted = Append(@, postData)]
  /\ UNCHANGED <<component, txt, tc, conn>>

\* the POST is ok: return newPost.id
CreateOk ==
  /\ pub.pc = "create"
  /\ pub' = [pub EXCEPT !.pc = "returned"]
  /\ UNCHANGED <<component, txt, tc, conn>>

\* the POST is not ok or fails: throw
CreateFails ==
  /\ pub.pc = "create"
  /\ pub' = [pub EXCEPT !.pc = "thrown"]
  /\ UNCHANGED <<component, txt, tc, conn>>

NextPublish ==
  \/ \E code \in LanguageCodes : \E f \in BOOLEAN :
       PublishTranslatedPost(code, f)
  \/ \E o \in OriginalPosts : GetOriginalOk(o)
  \/ GetOriginalFails
  \/ \E id \in {0, 7} : MediaReturns(id)
  \/ CreateOk
  \/ CreateFails

\* nothing has been called yet; the same state InitKeys describes
SpecPublish == InitKeys /\ [][NextPublish]_vars

\* ---- the connection on its own ------------------------------------------
\* nothing connected, nothing selected
InitConnect ==
  /\ isTranslating = FALSE
  /\ nSelected = 0
  /\ selectedLanguage = "zh"
  /\ credentials = FALSE
  /\ chunksOf = [p \in Posts |-> 1]
  /\ comp = [g \in Gens |-> InitComp]
  /\ chain = [g \in Gens |-> InitChain]
  /\ txt = NoText
  /\ tc = NoCall
  /\ pub = NoPublish
  /\ conn = NoConnection

\* ConnectionForm.handleConnect up to its first await; the form is rendered
\* when not connected and its button is disabled while loading
HandleConnect(siteUrl) ==
  /\ ~IsConnected
  /\ ~conn.loading
  /\ conn' = [conn EXCEPT !.loading = TRUE, !.pc = "test",
                          !.trying = [siteUrl     |-> ValidateSiteUrl(siteUrl),
                                      username    |-> "user",
                                      appPassword |-> "pass"],
                          !.tested = "none", !.fetched = "none"]
  /\ UNCHANGED <<component, txt, tc, pub>>

\* a handleConnect that stores the credentials as soon as the test passed
TestConnectionReturnsStores(ok) ==
  /\ conn.pc = "test"
  /\ conn' = IF ok
               THEN [conn EXCEPT !.pc = "fetch", !.tested = "true",
                                 !.credentials = conn.trying]
               ELSE [conn EXCEPT !.pc = "form", !.tested = "false",
                                 !.loading = FALSE]
  /\ UNCHANGED <<component, txt, tc, pub>>

\* testConnection returns !!data.id; handleConnect goes on to fetchPosts when
\* it is true and to its finally block when it is false
TestConnectionReturns(ok) ==
  /\ conn.pc = "test"
  /\ conn' = IF ok
               THEN [conn EXCEPT !.pc = "fetch", !.tested = "true"]
               ELSE [conn EXCEPT !.pc = "form", !.tested = "false",
                                 !.loading = FALSE]
  /\ UNCHANGED <<component, txt, tc, pub>>

\* testConnection throws (HTTP error, network error, timeout): catch, finally
TestConnectionThrows ==
  /\ conn.pc = "test"
  /\ conn' = [conn EXCEPT !.pc = "form", !.tested = "threw",
                          !.loading = FALSE]
  /\ UNCHANGED <<component, txt, tc, pub>>

\* fetchPosts returns: setCredentials, setPosts, finally
FetchPostsReturns(ids) ==
  /\ conn.pc = "fetch"
  /\ conn' = [conn EXCEPT !.pc = "form", !.fetched = "ok",
                          !.credentials = conn.trying,
                          !.posts = Fetched(ids),
                          !.loading = FALSE]
  /\ UNCHANGED <<component, txt, tc, pub>>

\* fetchPosts throws: catch, finally
FetchPostsThrows ==
  /\ conn.pc = "fetch"
  /\ conn' = [conn EXCEPT !.pc = "form", !.fetched = "threw",
                          !.loading = FALSE]
  /\ UNCHANGED <<component, txt, tc, pub>>

\* WordPressProvider.clearConnection, the Disconnect button of the card that
\* replaces the form when connected
ClearConnection ==
  /\ IsConnected
  /\ conn' = [conn EXCEPT !.credentials = Null, !.posts = <<>>]
  /\ UNCHANGED <<component, txt, tc, pub>>

\* WordPressProvider.togglePostSelection
TogglePostSelection(postId) ==
  /\ IsConnected
  /\ \E k \in 1..Len(conn.posts) : conn.posts[k].id = postId
  /\ conn' = [conn EXCEPT !.posts =
                 [k \in 1..Len(conn.posts) |->
                    IF conn.posts[k].id = postId
                      THEN [conn.posts[k] EXCEPT !.selected = ~@]
                      ELSE conn.posts[k]]]
  /\ UNCHANGED <<component, txt, tc, pub>>

NextConnect ==
  \/ \E siteUrl \in SiteUrls : HandleConnect(siteUrl)
  \/ \E ok \in BOOLEAN : TestConnectionReturns(ok)
  \/ TestConnectionThrows
  \/ \E ids \in PostLists : FetchPostsReturns(ids)
  \/ FetchPostsThrows
  \/ ClearConnection
  \/ \E postId \in 1..MaxFetched : TogglePostSelection(postId)

SpecConnect == InitConnect /\ [][NextConnect]_vars

\* ---- the claims -----------------------------------------------------------

Running(g) ==
  comp[g].mounted /\ comp[g].status \in {"translating", "publishing"}

\* a step in which chain g dispatches translatePost for a new post (not a
\* retry of the post it was processing)
NewItemDispatch(g) ==
  /\ chain'[g].acts > chain[g].acts
  /\ chain'[g].pc = "title"
  /\ chain'[g].att = 1

\* C1: retry bound: a post is never attempted more than MAX_RETRIES + 1
\* times; after that many failed attempts it is marked failed instead.
C1_RetryBound ==
  \A g \in Gens : chain[g].att <= MAX_RETRIES + 1

\* C2: cancellation blocks new work: once abortTranslation has set the
\* aborted flag, processNextPost dispatches no translatePost call for a new
\* post.
C2_CancelBlocksNewWork ==
  [][\A g \in Gens : comp[g].aborted => ~NewItemDispatch(g)]_vars

\* C3: discard of in-flight results: when the abort was requested while a
\* translate call (title or chunk) of the current attempt was in flight, that
\* attempt issues no publish call and does not change the tallies.
C3_DiscardInFlight ==
  [][\A g \in Gens :
       (chain[g].abortPhase \in {"title", "chunk"} /\ comp'[g].mounted)
         => /\ chain'[g].pc # "publish"
            /\ comp'[g].results = comp[g].results]_vars

\* C4: progress monotonicity: while the run is Running (translating or
\* publishing) every step leaves the progress value equal or greater.
C4_ProgressMonotone ==
  [][\A g \in Gens :
       (Running(g) /\ Running(g)')
         => comp'[g].progress >= comp[g].progress]_vars

\* C5: progress is exactly 100 only in Completed, and Completed has
\* progress 100.
C5_HundredIffCompleted ==
  \A g \in Gens :
    /\ comp[g].progress = 100 * PScale => comp[g].status = "completed"
    /\ comp[g].status = "completed" => comp[g].progress = 100 * PScale

\* C6: item failure is not fatal: a post that has failed all of its
\* MAX_RETRIES + 1 attempts is tallied as failed and is not waiting for
\* another retry (the orchestrator has advanced).
C6_ItemFailureNotFatal ==
  \A g \in Gens :
    (comp[g].mounted /\ chain[g].fails >= MAX_RETRIES + 1)
      => (comp[g].results.failed >= 1 /\ chain[g].pc # "timer")

\* C7: all-success run: when no call has failed, every post is published at
\* most once, and a run that has returned is Completed with success = N,
\* failed = 0 and progress = 100.
C7_AllSuccess ==
  \A g \in Gens :
    ~chain[g].anyFail
      => /\ \A p \in Posts : chain[g].pubs[p] <= 1
         /\ (chain[g].pc = "returned" /\ comp[g].mounted /\ ~comp[g].aborted)
              => /\ comp[g].status = "completed"
                 /\ comp[g].results =
                      [success |-> chain[g].cap.totalPosts, failed |-> 0]
                 /\ comp[g].progress = 100 * PScale

\* C8: recovery by retry: while the attempt that follows two failed attempts
\* of a post is in flight, it is the 3rd attempt, the recorded attempt count
\* is 3 (retryCount = 2) and two backoff delays have elapsed for the post.
C8_RecoveryByRetry ==
  \A g \in Gens :
    (comp[g].mounted /\ chain[g].pc \in InFlight /\ chain[g].fails = 2)
      => /\ chain[g].att = 3
         /\ comp[g].retryCount + 1 = 3
         /\ chain[g].timers = 2

\* C9: cancellation between items: when the abort was requested while the
\* last call of a post (its publish) was in flight and that call succeeds,
\* the post is tallied, the chain returns without starting the next post
\* and the run stays Aborted.
C9_CancelBetweenItems ==
  [][\A g \in Gens :
       ( /\ chain[g].abortPhase = "publish"
         /\ comp'[g].mounted
         /\ comp'[g].results.success = comp[g].results.success + 1 )
         => /\ chain'[g].pc = "returned"
            /\ comp'[g].status = "error"
            /\ comp'[g].results.failed = comp[g].results.failed]_vars

\* C10: strictly sequential processing: at most one post is mid-translation
\* or mid-publish at any time, and a post is not started before the posts
\* submitted ahead of it are Done or Failed.
C10_Sequential ==
  /\ Cardinality({g \in Gens : chain[g].pc \in InFlight}) <= 1
  /\ \A g \in Gens :
       (comp[g].mounted /\ chain[g].pc \in InFlight)
         => chain[g].post <= comp[g].results.success + comp[g].results.failed

\* the moves of the run state: Idle -> Running -> {Completed, Aborted}
RunMove(s, t) ==
  \/ s = t
  \/ s = "idle" /\ t = "translating"
  \/ s \in {"translating", "publishing"}
       /\ t \in {"translating", "publishing", "completed", "error"}

\* C11: run state machine: the status of a mounted instance only moves
\* Idle -> Running -> Completed or Aborted; Completed and Aborted ('error')
\* are absorbing.
C11_RunStateMachine ==
  [][\A g \in Gens :
       (comp[g].mounted /\ comp'[g].mounted)
         => RunMove(comp[g].status, comp'[g].status)]_vars

\* C18: cancelled retry: when the abort was requested while a post waits in
\* its backoff delay, the elapsing delay dispatches nothing: the chain stays
\* in the delay or returns.
C18_CancelledRetry ==
  [][\A g \in Gens :
       (comp[g].aborted /\ chain[g].pc = "timer")
         => chain'[g].pc \in {"timer", "returned"}]_vars

\* C19: tallies survive cancellation: the step that aborts and every later
\* step of the aborted run leave the success and failed counts unchanged.
C19_TalliesSurviveAbort ==
  [][\A g \in Gens :
       (comp[g].mounted /\ comp'[g].mounted /\ comp'[g].aborted)
         => comp'[g].results = comp[g].results]_vars

\* C20: Completed means every item resolved: a started run that was not
\* cancelled is Completed exactly when success + failed equals the number of
\* submitted posts.
C20_CompletedIffAllResolved ==
  \A g \in Gens :
    (comp[g].mounted /\ ~comp[g].aborted /\ chain[g].pc # "none")
      => ( comp[g].status = "completed"
             <=> comp[g].results.success + comp[g].results.failed
                   = chain[g].cap.totalPosts )

\* C17 as claimed: no post is handed to publishTranslatedPost with an inline
\* error marker in place of a chunk.
C17_NoMarkerPublished ==
  \A g \in Gens : chain[g].pc = "publish" => ~chain[g].marker

\* C17 as amended: the return of a body chunk call, failed or not, never
\* fails the attempt: the chain goes on to the next chunk or to the publish
\* call, no failed attempt is counted and no retry is scheduled; a marker
\* once put in the translated content stays in it.
C17_ChunkFailureMarked ==
  [][\A g \in Gens :
       chain[g].pc = "chunk"
         => /\ chain'[g].pc \in {"chunk", "publish"}
            /\ chain'[g].fails = chain[g].fails
            /\ chain'[g].timers = chain[g].timers
            /\ chain[g].marker => chain'[g].marker]_vars

\* a post whose content holds an error marker is being published
C17_Witness ==
  \E g \in Gens : chain[g].pc = "publish" /\ chain[g].marker

\* C12: start preconditions: with an empty selection, no language or no
\* stored credentials the start is rejected: the status stays 'idle',
\* tallies and progress keep their initial values and no chain (hence no
\* translate or publish call) is ever started.
C12_StartPreconditions ==
  \A g \in Gens :
    ~(nSelected # 0 /\ selectedLanguage # "" /\ credentials)
      => /\ comp[g].status = "idle"
         /\ comp[g].results = [success |-> 0, failed |-> 0]
         /\ comp[g].progress = 0
         /\ chain[g].pc = "none"
         /\ chain[g].acts = 0

\* startTranslation has run and has returned at a precondition
C12_Witness ==
  \E g \in Gens :
    /\ comp[g].mounted
    /\ chain[g].rejected # "none"
    /\ comp[g].status = "idle"

\* paragraph-separator whitespace ignored: the text without its line breaks
StripBreaks(s) == SelectSeq(s, LAMBDA t : t # NL)

RECURSIVE Concat(_)
Concat(ss) == IF ss = <<>> THEN <<>> ELSE Head(ss) \o Concat(Tail(ss))

\* a chunk without the '\n\n' that splitContentIntoChunks appended to it
TrimBreaks(s) ==
  IF Len(s) >= 2 /\ s[Len(s)] = NL /\ s[Len(s) - 1] = NL
    THEN SubSeq(s, 1, Len(s) - 2)
    ELSE s

\* the chunk is one paragraph, and that paragraph is longer than maxLength
OneLongParagraph(chunk, maxLength) ==
  LET ps == SplitParagraphs(TrimBreaks(chunk))
  IN Len(ps) = 1 /\ Chars(ps[1]) > maxLength

\* C13: restoreHtmlElements applied to what extractHtmlElements returned
\* gives back the original HTML, for every text and every nesting of img,
\* video and iframe fragments.
C13_RoundTrip ==
  txt.pc = "restored" => txt.restored = txt.content

\* C14: every chunk splitContentIntoChunks returns has length <= maxLength,
\* unless the chunk is a single paragraph that alone is longer than maxLength.
C14_ChunkSizeBound ==
  txt.pc = "split" =>
    \A k \in 1..Len(txt.chunks) :
      \/ Chars(txt.chunks[k]) <= txt.maxLength
      \/ OneLongParagraph(txt.chunks[k], txt.maxLength)

\* C15: the chunks, concatenated in order after placeholder restoration and
\* with paragraph-separator whitespace ignored, are the original text: no
\* paragraph is dropped, duplicated or reordered.
C15_ChunkCoverage ==
  txt.pc = "split" =>
    StripBreaks(Concat(txt.chunks)) = StripBreaks(txt.content)

\* C16: one translateContent call uses the keys in list order from the first,
\* one request per key; it stops at the first success; a response that is
\* not ok, a timeout or a parse failure leads to the next key; after the last
\* key has failed the call throws the error of that last key.
C16_CredentialFallback ==
  LET n == Len(tc.calls)
      m == Len(tc.outs)
  IN /\ n <= Len(API_KEYS)
     /\ \A k \in 1..n : tc.calls[k] = k
     /\ \A k \in 1..m : tc.outs[k] = "ok" => k = n /\ tc.pc = "returned"
     /\ tc.pc = "returned" => m = n /\ tc.outs[n] = "ok"
     /\ tc.pc = "fetch" => m = n - 1
     /\ tc.pc = "delay" => m = n /\ n < Len(API_KEYS)
     /\ tc.pc = "thrown" =>
          /\ m = n /\ n = Len(API_KEYS)
          /\ \A k \in 1..m : tc.outs[k] \in FailKinds
          /\ tc.thrown = <<tc.outs[n], n>>
     /\ (m = Len(API_KEYS) /\ tc.outs[m] # "ok") => tc.pc = "thrown"

C16_Witness ==
  tc.pc = "thrown" /\ tc.outs = <<"http", "timeout", "shape">>

\* C21: every non-empty text translateContent returns ends with '.', '!' or
\* '?', and it is the trimmed text plus a period exactly when the trimmed
\* provider output does not end with one of the three.
C21_TerminalPunctuation ==
  tc.pc = "returned" =>
    LET out == Trim(tc.raw)
        endsProperly == out # <<>> /\ out[Len(out)] \in Punctuation
    IN /\ tc.result # <<>> => tc.result[Len(tc.result)] \in Punctuation
       /\ out # <<>> =>
            tc.result = IF endsProperly THEN Trim(tc.restored)
                        ELSE Append(Trim(tc.restored), ".")

C21_Witness ==
  /\ tc.pc = "returned"
  /\ tc.raw = <<Placeholder(0), " ">>
  /\ tc.result = <<Img, ".">>

\* C22: a response whose candidate text is missing or empty is a failure of
\* that key and leads to the next key; it is never returned as a translation.
C22_EmptyOutputIsFailure ==
  tc.pc = "returned" => tc.raw # <<>> /\ tc.result # <<>>

\* what restoration is to give: every token of the map replaced by its
\* fragment, every other token left as it is
RECURSIVE Substituted(_, _, _)
Substituted(text, elements, placeholders) ==
  IF text = <<>> THEN <<>>
  ELSE LET k == FirstAt(placeholders, 1, Head(text))
       IN (IF k = 0 THEN <<Head(text)>> ELSE elements[k])
            \o Substituted(Tail(text), elements, placeholders)

\* C30: restoreHtmlElements replaces every token of the map that occurs in
\* the text by its fragment, leaves a token without entry in the map
\* literally unchanged, and changes nothing outside tokens.
C30_RestorationTotal ==
  tc.pc = "returned" =>
    LET e == ExtractHtmlElements(tc.content)
    IN tc.restored = Substituted(tc.raw, e.elements, e.placeholders)

\* C23: every POST of publishTranslatedPost creates the post with status
\* 'publish', the slug of the original post followed by '-' and the
\* lower-cased language code, and the category and tag ids of the original;
\* it is sent only after the GET of the original post succeeded.
C23_PublishPayload ==
  /\ Len(pub.posted) <= 1
  /\ \A k \in 1..Len(pub.posted) :
       /\ pub.fetched
       /\ pub.posted[k].status = "publish"
       /\ \E lower \in {"zh", "fr"} :
            /\ pub.language_code \in
                 (IF lower = "zh" THEN {"zh", "ZH"} ELSE {"Fr"})
            /\ pub.posted[k].slug = pub.originalPost.slug \o "-" \o lower
       /\ pub.posted[k].categories = pub.originalPost.categories
       /\ pub.posted[k].tags = pub.originalPost.tags
  /\ pub.pc \in {"create", "returned"} => Len(pub.posted) = 1

C23_Witness ==
  /\ pub.pc = "returned"
  /\ pub.language_code = "ZH"
  /\ pub.posted[1].slug = "my-post-zh"
  /\ pub.posted[1].categories = <<3>>

\* C24: the delays waited before the successive retries of one post double
\* from each retry to the next, so they are strictly increasing.
C24_ExponentialBackoff ==
  \A g \in Gens :
    \A k \in 2..Len(chain[g].delays) :
      /\ chain[g].delays[k] = 2 * chain[g].delays[k - 1]
      /\ chain[g].delays[k] > chain[g].delays[k - 1]

\* C25: a retry of a post starts its processing over: the step after the
\* retry timer is the title call of the same post, with no chunk translated
\* and an empty translated content; nothing of the failed attempt is kept.
C25_RetryFromScratch ==
  [][\A g \in Gens :
       (chain[g].pc = "timer" /\ chain'[g].pc # "timer")
         => /\ chain'[g].pc = "title"
            /\ chain'[g].post = chain[g].post
            /\ chain'[g].i = 0
            /\ chain'[g].body = <<>>
            /\ ~chain'[g].marker]_vars

\* the second attempt of a post starts at the title after a first attempt
\* that had translated every chunk and failed in the publish call
C25_Witness ==
  \E g \in Gens :
    /\ chain[g].pc = "title" /\ chain[g].att = 2 /\ chain[g].acts = 2
    /\ chain[g].body = <<>>
    /\ comp[g].progress = 100 * PScale

\* C26 as claimed: the publish call is issued only after the title and
\* every chunk have been translated, the chunks one after the other in chunk
\* order, and the translated body is the chunk translations in chunk order.
C26_StepOrder ==
  \A g \in Gens :
    /\ chain[g].pc = "title" => chain[g].body = <<>>
    /\ chain[g].pc = "chunk" => Len(chain[g].body) = chain[g].i
    /\ chain[g].pc = "publish"
         => Len(chain[g].body) = chunksOf[chain[g].post]
    /\ chain[g].pc \in InFlight
         => \A k \in 1..Len(chain[g].body) : chain[g].body[k] = k - 1

\* C26 as amended: the same order, with a chunk call that has returned in
\* place of a chunk that has been translated: the k-th piece of the body is
\* the translation of the k-th chunk or the error marker put in its place.
C26_StepOrderWithMarkers ==
  \A g \in Gens :
    /\ chain[g].pc = "title" => chain[g].body = <<>>
    /\ chain[g].pc = "chunk" => Len(chain[g].body) = chain[g].i
    /\ chain[g].pc = "publish"
         => Len(chain[g].body) = chunksOf[chain[g].post]
    /\ chain[g].pc \in InFlight
         => \A k \in 1..Len(chain[g].body) :
              chain[g].body[k] \in {k - 1, ErrorMarker}
    /\ chain[g].marker
         <=> \E k \in 1..Len(chain[g].body) : chain[g].body[k] = ErrorMarker

\* a post of two chunks is being published, its first chunk replaced by a
\* marker and its second translated
C26_Witness ==
  \E g \in Gens :
    chain[g].pc = "publish" /\ chain[g].body = <<ErrorMarker, 1>>

\* C27: every progress value reported during a run is
\* (completedItems + currentItemFraction) / totalItems * 100, completedItems
\* being the posts already Done or Failed and currentItemFraction a fraction
\* between 0 and 1: the value lies between completedItems / totalItems and
\* (completedItems + 1) / totalItems, in percent.
C27_ProgressFormula ==
  [][\A g \in Gens :
       (chain[g].pc \in {"title", "chunk"} /\ comp'[g].mounted
          /\ comp'[g].progress # comp[g].progress)
         => LET completedItems == comp'[g].results.success
                                    + comp'[g].results.failed
                totalItems == chain[g].cap.totalPosts
            IN /\ 100 * PScale * completedItems
                    <= comp'[g].progress * totalItems
               /\ comp'[g].progress * totalItems
                    <= 100 * PScale * (completedItems + 1)]_vars

\* the structural fragments of a text, as pairs of first and last index: an
\* img tag, a video or iframe element from its opening tag to the first
\* closing tag after it
Fragments(s) ==
  {<<i, i>> : i \in {j \in 1..Len(s) : s[j] = Img}}
    \cup {<<i, FirstAt(s, i + 1, VideoClose)>> :
            i \in {j \in 1..Len(s) : /\ s[j] \in {VideoOpen, VideoBare}
                                      /\ FirstAt(s, j + 1, VideoClose) # 0}}
    \cup {<<i, FirstAt(s, i + 1, IframeClose)>> :
            i \in {j \in 1..Len(s) : /\ s[j] = IframeOpen
                                      /\ FirstAt(s, j + 1, IframeClose) # 0}}

\* piece occurs in s as a whole
Within(piece, s) ==
  \E i \in 1..(Len(s) - Len(piece) + 1) :
    SubSeq(s, i, i + Len(piece) - 1) = piece

\* C28: no structural fragment of the text (img, video, iframe, also one
\* that contains a blank line) is split by splitContentIntoChunks: each
\* lies as a whole inside one chunk.
C28_FragmentsWhole ==
  txt.pc = "split" =>
    \A f \in Fragments(txt.content) :
      \E k \in 1..Len(txt.chunks) :
        Within(SubSeq(txt.content, f[1], f[2]), txt.chunks[k])

IsPlaceholder(t) == \E k \in 0..MaxLen : t = Placeholder(k)

\* C29: extractHtmlElements replaces every img, video and iframe fragment
\* by a placeholder of its own, numbered in order of appearance (the k-th
\* fragment of the text has index k-1, whatever its class), and the map
\* from placeholders to fragments is one-to-one.
C29_ExtractionOrder ==
  txt.pc = "extracted" =>
    LET e == txt.extracted
        tokens == SelectSeq(e.text, IsPlaceholder)
    IN /\ Fragments(e.text) = {}
       /\ Len(e.placeholders) = Len(e.elements)
       /\ \A j, k \in 1..Len(e.placeholders) :
            j # k => e.placeholders[j] # e.placeholders[k]
       /\ \A k \in 1..Len(tokens) : tokens[k] = Placeholder(k - 1)

\* greedy packing as claimed: a paragraph is added to the current chunk
\* unless that would make it exceed maxLength; no empty chunk is emitted
RECURSIVE GreedyFrom(_, _, _, _, _)
GreedyFrom(paragraphs, k, currentChunk, chunks, maxLength) ==
  LET pushed == IF currentChunk # <<>> THEN Append(chunks, currentChunk)
                ELSE chunks
  IN IF k > Len(paragraphs) THEN pushed
     ELSE IF Chars(currentChunk) + Chars(paragraphs[k]) > maxLength
       THEN GreedyFrom(paragraphs, k + 1, paragraphs[k] \o <<NL, NL>>,
                       pushed, maxLength)
       ELSE GreedyFrom(paragraphs, k + 1,
                       currentChunk \o paragraphs[k] \o <<NL, NL>>,
                       chunks, maxLength)

\* C31: splitContentIntoChunks returns the text as one unchanged chunk when
\* its length is <= maxLength; otherwise it packs the paragraphs greedily and
\* starts a new chunk exactly when adding the next paragraph would make the
\* current chunk exceed maxLength; it emits no empty chunk.
C31_GreedyPacking ==
  txt.pc = "split" =>
    /\ Chars(txt.content) <= txt.maxLength => txt.chunks = <<txt.content>>
    /\ Chars(txt.content) > txt.maxLength =>
         \A k \in 1..Len(txt.chunks) : txt.chunks[k] # <<>>
    /\ Chars(txt.content) > txt.maxLength =>
         LET e == ExtractHtmlElements(txt.content)
             greedy == GreedyFrom(SplitParagraphs(e.text), 1, <<>>, <<>>,
                                  txt.maxLength)
         IN txt.chunks =
              [k \in 1..Len(greedy) |->
                 RestoreHtmlElements(greedy[k], e.elements, e.placeholders)]

\* C32 as claimed: inside one translateContent call nothing is waited
\* between the failure of one key and the request with the next.
C32_ImmediateFallback ==
  tc.pc # "delay" /\ tc.waits = <<>>

\* C32 as amended: before the request with each key after the first, and
\* only then, translateContent has waited once, always KEY_DELAY: the wait
\* does not grow from key to key and none follows the last key.
C32_FixedDelay ==
  /\ \A k \in 1..Len(tc.waits) : tc.waits[k] = KEY_DELAY
  /\ tc.pc = "delay" => Len(tc.waits) = Len(tc.calls)
  /\ tc.pc \in {"fetch", "returned", "thrown"}
       => Len(tc.waits) = Len(tc.calls) - 1

\* the request with the third key is out after two waits
C32_Witness ==
  tc.pc = "fetch" /\ tc.i = 3 /\ tc.waits = <<KEY_DELAY, KEY_DELAY>>

\* C33: every request has a timeout, and the timeout of a request for a
\* title is strictly shorter than that of a request for a body chunk.
C33_TimeoutClasses ==
  tc.pc = "fetch" =>
    /\ tc.timeout > 0
    /\ tc.isTitle => tc.timeout < Timeout(FALSE)

C35_ResolvedOnce ==
  \A g \in Gens :
    /\ comp[g].mounted
         => comp[g].results.success + comp[g].results.failed
              <= chain[g].cap.totalPosts
    /\ \A p \in Posts : chain[g].pubs[p] <= 1

\* C36: the success count grows by one only when a publish call returns
\* successfully, the failed count only when the attempts of a post are
\* exhausted, and a post with an attempt in flight is counted in neither.
C36_TalliesReflectOutcomes ==
  /\ [][\A g \in Gens :
          (comp[g].mounted /\ comp'[g].mounted)
            => /\ comp'[g].results.success # comp[g].results.success
                    => /\ chain[g].pc = "publish"
                       /\ comp'[g].results.success
                            = comp[g].results.success + 1
               /\ comp'[g].results.failed # comp[g].results.failed
                    => /\ chain[g].fails >= MAX_RETRIES
                       /\ comp'[g].results.failed
                            = comp[g].results.failed + 1]_vars
  /\ [](\A g \in Gens :
          chain[g].pc \in InFlight => chain[g].pubs[chain[g].post] = 0)

\* C37: the retry count belongs to the post: the retry of a post leaves it
\* as the failed attempts of that post made it (it is not reset between
\* retries), and it is 0 when a new post is started.
C37_RetryBudgetPerItem ==
  [][\A g \in Gens :
       (comp[g].mounted /\ chain'[g].acts > chain[g].acts
          /\ chain'[g].pc = "title")
         => IF chain[g].pc = "timer"
              THEN comp'[g].retryCount = comp[g].retryCount
              ELSE comp'[g].retryCount = 0]_vars

\* C38: single chain of control: at most one activation of processNextPost
\* is in progress or scheduled at any time, also after an abort followed by
\* the start of a new translation.
C38_SingleChain ==
  Cardinality({g \in Gens : chain[g].pc \in InFlight \cup {"timer"}}) <= 1

\* C39: the stored progress is between 0 and 100 in every reachable state.
C39_ProgressRange ==
  \A g \in Gens :
    0 <= comp[g].progress /\ comp[g].progress <= 100 * PScale

\* the last chunk of a run of one post has reported: the progress is 100
C39_Witness ==
  \E g \in Gens :
    /\ chain[g].cap.totalPosts = 1 /\ chain[g].pc = "publish"
    /\ comp[g].progress = 100 * PScale

\* the post ids of the stored posts, in order
PostIds(posts) == [k \in 1..Len(posts) |-> posts[k].id]

\* the credentials a handleConnect can hold
Credentials ==
  {[siteUrl |-> ValidateSiteUrl(u), username |-> "user",
    appPassword |-> "pass"] : u \in SiteUrls}

\* C40: isConnected holds exactly when credentials are stored; credentials
\* and posts are stored only by the handleConnect whose testConnection
\* returned true and whose fetchPosts succeeded (the credentials it tried
\* and the posts it fetched); when either fails the stored credentials and
\* posts are unchanged; clearConnection leaves no credentials and no posts.
C40_ConnectionState ==
  [][/\ IsConnected' <=> conn'.credentials \in Credentials
     /\ (conn'.credentials # conn.credentials /\ conn'.credentials # Null)
          => /\ conn.pc = "fetch" /\ conn.tested = "true"
             /\ conn'.fetched = "ok"
             /\ conn'.credentials = conn.trying
     /\ (PostIds(conn'.posts) # PostIds(conn.posts) /\ conn'.posts # <<>>)
          => /\ conn.pc = "fetch" /\ conn.tested = "true"
             /\ conn'.fetched = "ok"
             /\ \A k \in 1..Len(conn'.posts) : ~conn'.posts[k].selected
     /\ (conn.pc \in {"test", "fetch"} /\ conn'.pc = "form"
           /\ conn'.fetched # "ok")
          => /\ conn'.credentials = conn.credentials
             /\ conn'.posts = conn.posts
     /\ (IsConnected /\ ~IsConnected')
          => conn'.credentials = Null /\ conn'.posts = <<>>]_vars

\* a handleConnect has stored its credentials and the posts it fetched
C40_Witness ==
  /\ IsConnected
  /\ conn.tested = "true" /\ conn.fetched = "ok"
  /\ conn.credentials = conn.trying
  /\ Len(conn.posts) = MaxFetched

====
